---- MODULE Spec2Model ----
(***************************************************************************)
(* Model of sphinx_llm.txt (src/src/sphinx_llm/txt.py): the MarkdownGenerator *)
(* that launches a secondary markdown build, merges its output into the    *)
(* HTML output tree and writes llms-full.txt and llms.txt.                 *)
(*                                                                         *)
(* Strings that the code compares or takes apart (file names) are          *)
(* sequences of one-character strings; a path is a sequence of such        *)
(* components, relative to the directory it lives in (outdir, or           *)
(* md_build_dir for the secondary build's output).                         *)
(*                                                                         *)
(* Spec is one build into an empty outdir; RebuildSpec runs builds one     *)
(* after the other into the same outdir; DescSpec applies                  *)
(* get_page_description to the lines of one generated file.                *)
(***************************************************************************)
EXTENDS Naturals, Sequences, FiniteSets, TLC

\* Largest number of source documents of one project.
MaxPages == 3

None == "None"

\* No path (a primary_target of None).
NoPath == << >>

-----------------------------------------------------------------------------
(* Strings and paths (str, pathlib.PurePath)                                *)

\* The characters used by the file names of the model, in code point order.
Alphabet ==
    << ".", "a", "b", "c", "d", "e", "f", "g", "h", "i", "l", "m", "n",
       "p", "r", "s", "t", "u", "x" >>

Ord(c) == CHOOSE i \in 1..Len(Alphabet) : Alphabet[i] = c

\* Python's str.__lt__: lexicographic by code point, a proper prefix first.
RECURSIVE StrLess(_, _)
StrLess(a, b) ==
    IF b = << >> THEN FALSE
    ELSE IF a = << >> THEN TRUE
    ELSE IF Head(a) # Head(b) THEN Ord(Head(a)) < Ord(Head(b))
    ELSE StrLess(Tail(a), Tail(b))

S_index == << "i", "n", "d", "e", "x" >>
S_guide == << "g", "u", "i", "d", "e" >>
S_sub == << "s", "u", "b" >>
S_api == << "a", "p", "i" >>
S_reference == << "r", "e", "f", "e", "r", "e", "n", "c", "e" >>
Ext_md == << ".", "m", "d" >>
Ext_html_md == << ".", "h", "t", "m", "l", ".", "m", "d" >>
S_index_md == S_index \o Ext_md
S_index_html_md == S_index \o Ext_html_md

\* PurePath.name, PurePath.parent
Name(p) == p[Len(p)]
Parent(p) == SubSeq(p, 1, Len(p) - 1)

\* str.rfind("."), 1-based; 0 when there is no dot.
RDot(name) ==
    IF \E i \in 1..Len(name) : name[i] = "."
    THEN CHOOSE i \in 1..Len(name) :
            name[i] = "." /\ \A j \in (i + 1)..Len(name) : name[j] # "."
    ELSE 0

\* PurePath.stem: the name without its last suffix; a leading or a trailing
\* dot starts no suffix.
Stem(name) ==
    IF 1 < RDot(name) /\ RDot(name) < Len(name)
    THEN SubSeq(name, 1, RDot(name) - 1)
    ELSE name

\* PurePath.with_suffix(suffix)
WithSuffix(p, suffix) == Parent(p) \o << Stem(Name(p)) \o suffix >>


-----------------------------------------------------------------------------
(* Configuration and inputs                                                 *)

\* Values the configuration option llms_txt_suffix_mode is given.
SuffixModeValues ==
    { "file-suffix", "url-suffix", "both", "auto", "replace", "invalid-mode" }

\* Builders the host runs the extension under.
BuilderNames == { "html", "dirhtml", "markdown", "latex" }

\* Source documents (docnames) a project can hold.
D_index == << S_index >>
D_guide == << S_guide >>
D_sub == << S_sub >>
D_sub_index == << S_sub, S_index >>
D_api_reference == << S_api, S_reference >>
DocNames == { D_index, D_guide, D_sub, D_sub_index, D_api_reference }

\* The markdown builder renders document d to <d>.md in its output directory.
ArtifactOf(d) == Parent(d) \o << Name(d) \o Ext_md >>

\* The rendered markdown of document d (distinct documents render differently).
Render(d) == << "markdown of", d >>

\* A validation that rejects nothing.
valid_modes_unchecked == SuffixModeValues

\* valid_modes of build_llms_txt
valid_modes == { "file-suffix", "url-suffix", "both" }

\* The ExtensionError build_llms_txt raises: the message quotes the value
\* ({self.suffix_mode!r}) and lists valid_modes after "Must be one of".
InvalidSuffixModeError(mode) ==
    [ type |-> "ExtensionError",
      prefix |-> "Invalid llms_txt_suffix_mode: ",
      value |-> mode,
      phrase |-> "Must be one of",
      modes |-> valid_modes ]

-----------------------------------------------------------------------------
(* copy_markdown_files: where one generated file goes                       *)

\* base_name = rel_path.stem; new_name = f"{base_name}.html.md"
base_name(rel_path) == Stem(Name(rel_path))
new_name(rel_path) == base_name(rel_path) \o Ext_html_md

\* The three-way choice on suffix_mode made in each dirhtml branch.
ChooseBySuffixMode(suffix_mode, file_suffix_target, url_suffix_target) ==
    IF suffix_mode = "file-suffix"
    THEN [ target_files |-> << file_suffix_target >>,
           primary_target |-> file_suffix_target ]
    ELSE IF suffix_mode = "url-suffix"
    THEN [ target_files |-> << url_suffix_target >>,
           primary_target |-> url_suffix_target ]
    ELSE IF suffix_mode = "both"
    THEN [ target_files |-> << file_suffix_target, url_suffix_target >>,
           primary_target |-> file_suffix_target ]
    ELSE [ target_files |-> << >>, primary_target |-> NoPath ]

\* The file-suffix candidate without the dirhtml directory level.
DirhtmlFileSuffixTarget_flat(rel_path) ==
    Parent(rel_path) \o << base_name(rel_path) \o Ext_html_md >>

\* dirhtml, file-suffix candidate of one generated file
DirhtmlFileSuffixTarget(rel_path) ==
    IF base_name(rel_path) = S_index /\ Parent(rel_path) = << >>
    THEN << new_name(rel_path) >>
    ELSE IF base_name(rel_path) = S_index
    THEN Parent(rel_path) \o << new_name(rel_path) >>
    ELSE WithSuffix(rel_path, << >>) \o << S_index_html_md >>

\* dirhtml, url-suffix candidate of one generated file
DirhtmlUrlSuffixTarget(rel_path) ==
    IF base_name(rel_path) = S_index /\ Parent(rel_path) = << >>
    THEN << S_index_md >>
    ELSE IF base_name(rel_path) = S_index
    THEN Parent(Parent(rel_path)) \o << Name(Parent(rel_path)) \o Ext_md >>
    ELSE WithSuffix(rel_path, Ext_md)

\* Other builders: <parent>/<base_name>.html.md
FlatTarget(rel_path) == Parent(rel_path) \o << new_name(rel_path) >>

\* target_files and primary_target of one generated file
TargetsOf(builder_name, suffix_mode, rel_path) ==
    IF builder_name = "dirhtml"
    THEN ChooseBySuffixMode(suffix_mode,
                            DirhtmlFileSuffixTarget(rel_path),
                            DirhtmlUrlSuffixTarget(rel_path))
    ELSE [ target_files |-> << FlatTarget(rel_path) >>,
           primary_target |-> FlatTarget(rel_path) ]

\* shutil.copy2 of content to every path of target_files, in order; budget
\* is the number of copies (mkdir and copy2) that succeed before one raises
\* OSError.
RECURSIVE CopyTo(_, _, _, _)
CopyTo(fs, target_files, content, budget) ==
    IF target_files = << >>
    THEN [ files |-> fs, budget |-> budget, failed |-> FALSE ]
    ELSE IF budget = 0
    THEN [ files |-> fs, budget |-> 0, failed |-> TRUE ]
    ELSE CopyTo((Head(target_files) :> content) @@ fs, Tail(target_files),
                content, budget - 1)

\* The loop of copy_markdown_files over md_files (the order rglob gave),
\* from output tree fs and the list gen of primary targets so far.
RECURSIVE CopyLoop(_, _, _, _, _, _, _)
CopyLoop(builder_name, suffix_mode, src, md_list, fs, gen, budget) ==
    IF md_list = << >>
    THEN [ files |-> fs, generated_markdown_files |-> gen, failed |-> FALSE ]
    ELSE LET rel_path == Head(md_list)
             t == TargetsOf(builder_name, suffix_mode, rel_path)
             c == CopyTo(fs, t.target_files, src[rel_path], budget)
         IN  IF c.failed
             THEN [ files |-> c.files, generated_markdown_files |-> gen,
                    failed |-> TRUE ]
             ELSE CopyLoop(builder_name, suffix_mode, src, Tail(md_list),
                           c.files,
                           IF t.primary_target # NoPath
                           THEN Append(gen, t.primary_target) ELSE gen,
                           c.budget)

\* copy_markdown_files: src is the content of md_build_dir, md_list its
\* *.md files in the order rglob enumerated them, fs the output tree.
copy_markdown_files(builder_name, suffix_mode, src, md_list, fs, budget) ==
    CopyLoop(builder_name, suffix_mode, src, md_list, fs, << >>, budget)

\* The number of copies copy_markdown_files makes of md_list.
RECURSIVE TotalCopies(_, _, _)
TotalCopies(builder_name, suffix_mode, md_list) ==
    IF md_list = << >> THEN 0
    ELSE Len(TargetsOf(builder_name, suffix_mode, Head(md_list)).target_files)
         + TotalCopies(builder_name, suffix_mode, Tail(md_list))

-----------------------------------------------------------------------------
(* build_llms_full_txt and create_sitemap                                   *)

\* key=lambda x: (x.name != "index.html.md", x.name), compared as tuples
\* (False < True).
KeyLess(x, y) ==
    LET kx == Name(x) # S_index_html_md
        ky == Name(y) # S_index_html_md
    IN  IF kx # ky THEN ky ELSE StrLess(Name(x), Name(y))

\* Insert x into the sorted list s behind every element not greater than x.
RECURSIVE InsertSorted(_, _)
InsertSorted(s, x) ==
    IF s = << >> THEN << x >>
    ELSE IF KeyLess(x, Head(s)) THEN << x >> \o s
    ELSE << Head(s) >> \o InsertSorted(Tail(s), x)

\* sorted(...): stable, ascending by key.
RECURSIVE SortedFiles(_)
SortedFiles(s) ==
    IF s = << >> THEN << >>
    ELSE InsertSorted(SortedFiles(SubSeq(s, 1, Len(s) - 1)), s[Len(s)])

\* llms-full.txt: per sorted file the heading "# <name>" and the content
\* read back from the output tree.
build_llms_full_txt(fs, gen) ==
    [ i \in 1..Len(gen) |->
        [ heading |-> Name(SortedFiles(gen)[i]),
          content |-> fs[SortedFiles(gen)[i]] ] ]

\* Link lines whose url is the bare file name instead of the relative path.
create_sitemap_name_only(fs, gen) ==
    [ i \in 1..Len(gen) |->
        [ url |-> << Name(SortedFiles(gen)[i]) >>,
          content |-> fs[SortedFiles(gen)[i]] ] ]

\* The "## Pages" link lines of llms.txt: per sorted file its url (the path
\* relative to outdir) and the file the title and description are read from.
create_sitemap(fs, gen) ==
    [ i \in 1..Len(gen) |->
        [ url |-> SortedFiles(gen)[i],
          content |-> fs[SortedFiles(gen)[i]] ] ]

-----------------------------------------------------------------------------
(* State                                                                    *)

VARIABLES
    builder_name,   \* app.builder.name
    config,         \* app.config: the llms_txt_* options the build is given
    srcdocs,        \* the documents of app.srcdir
    self,           \* the MarkdownGenerator's fields
    listeners,      \* handlers connected to build-finished, by priority
    phase,          \* where the host build is
    exception,      \* the exception build-finished is emitted with
    pending,        \* handlers of the current build-finished still to call
    raised,         \* what a handler raised to the host
    log,            \* messages logged at warning or error level
    files,          \* per-page markdown files of outdir: path -> content
    llms_full_txt,  \* outdir/llms-full.txt
    llms_txt,       \* outdir/llms.txt
    md_dir,         \* outdir/_markdown_build, written by the secondary build
    trace,          \* history: the calls and events of the build, in order
    desc,           \* one call of get_page_description: arguments and result
    prior           \* the number of this build and outdir as it found it

vars ==
    << builder_name, config, srcdocs, self, listeners, phase, exception,
       pending, raised, log, files, llms_full_txt, llms_txt, md_dir, trace,
       desc, prior >>

NoFiles == [ p \in {} |-> << >> ]
NoProcess == [ state |-> "None", returncode |-> 0, doctreedir |-> None ]
NoError == [ type |-> None ]
Absent == [ exists |-> FALSE, entries |-> << >> ]

\* The first build into an empty outdir.
FirstBuild ==
    [ build |-> 1, files |-> NoFiles, llms_full_txt |-> Absent,
      llms_txt |-> Absent ]

\* get_page_description has not been called.
NoCall ==
    [ md_file |-> NoPath, lines |-> << >>, returned |-> FALSE,
      description |-> << >> ]

\* MarkdownGenerator.__init__ and setup(), before builder-inited is emitted.
\* parallel is None (falsy) and suffix_mode unset until build_llms_txt runs.
Init ==
    /\ builder_name \in BuilderNames
    /\ config \in [ llms_txt_build_parallel : BOOLEAN,
                    llms_txt_suffix_mode : SuffixModeValues,
                    llms_txt_full_build : BOOLEAN ]
    /\ srcdocs \in { S \in SUBSET DocNames : Cardinality(S) <= MaxPages }
    /\ self = [ parallel |-> FALSE,
                suffix_mode |-> None,
                md_build_process |-> NoProcess,
                generated_markdown_files |-> << >> ]
    /\ listeners = << >>
    /\ phase = "setup"
    /\ exception = None
    /\ pending = << >>
    /\ raised = NoError
    /\ log = {}
    /\ files = NoFiles
    /\ llms_full_txt = Absent
    /\ llms_txt = Absent
    /\ md_dir = [ exists |-> FALSE, files |-> NoFiles ]
    /\ trace = << >>
    /\ desc = NoCall
    /\ prior = FirstBuild

-----------------------------------------------------------------------------
(* build_markdown_files                                                     *)

\* A command that is always given "-d app.doctreedir".
Popen_shared_doctrees(parallel) ==
    [ state |-> "running", returncode |-> 0, doctreedir |-> "app.doctreedir" ]

\* The Popen object: the command gets "-d app.doctreedir" when not parallel,
\* else sphinx uses its default, <md_build_dir>/.doctrees.
Popen(parallel) ==
    [ state |-> "running",
      returncode |-> 0,
      doctreedir |-> IF ~parallel THEN "app.doctreedir" ELSE "md_build_dir/.doctrees" ]

\* self after build_markdown_files; Popen raises when launch_ok is false.
SelfAfterLaunch(slf, launch_ok) ==
    IF launch_ok
    THEN [ slf EXCEPT !.md_build_process = Popen(slf.parallel) ]
    ELSE slf

LogAfterLaunch(lg, launch_ok) ==
    IF launch_ok THEN lg ELSE lg \cup { "Failed to run sphinx-build subprocess" }

\* md_build_dir.mkdir(exist_ok=True)
MkBuildDir(d) == [ d EXCEPT !.exists = TRUE ]

-----------------------------------------------------------------------------
(* builder-inited                                                           *)

\* A builder check that only leaves out the markdown builder.
SupportedBuilders_any == BuilderNames \ { "markdown" }

\* The builders build_llms_txt generates markdown for.
SupportedBuilders == { "html", "dirhtml" }

\* The build-finished handlers build_llms_txt connects, in the order their
\* priorities give: combine_builds at 101, and when the markdown build is
\* deferred build_markdown_files at 100 before it.
ParallelListeners == << "combine_builds" >>

\* The two handlers with their priorities exchanged.
DeferredListeners_swapped == << "combine_builds", "build_markdown_files" >>

DeferredListeners == << "build_markdown_files", "combine_builds" >>

build_llms_txt ==
    /\ phase = "setup"
    /\ LET slf == [ self EXCEPT !.parallel = config.llms_txt_build_parallel,
                                !.suffix_mode = config.llms_txt_suffix_mode ]
       IN  IF slf.suffix_mode \notin valid_modes
           THEN /\ self' = slf
                /\ raised' = InvalidSuffixModeError(slf.suffix_mode)
                /\ phase' = "extension_error"
                /\ UNCHANGED << listeners, log, md_dir, trace >>
           ELSE IF builder_name = "markdown"
           THEN /\ self' = slf
                /\ phase' = "building"
                /\ UNCHANGED << listeners, log, md_dir, raised, trace >>
           ELSE IF builder_name \notin SupportedBuilders
           THEN /\ self' = slf
                /\ phase' = "building"
                /\ UNCHANGED << listeners, log, md_dir, raised, trace >>
           ELSE IF slf.parallel
           THEN \E launch_ok \in BOOLEAN :
                /\ self' = SelfAfterLaunch(slf, launch_ok)
                /\ log' = LogAfterLaunch(log, launch_ok)
                /\ md_dir' = MkBuildDir(md_dir)
                /\ trace' = Append(trace, "Popen")
                /\ listeners' = ParallelListeners
                /\ phase' = "building"
                /\ UNCHANGED raised
           ELSE /\ self' = slf
                /\ listeners' = DeferredListeners
                /\ phase' = "building"
                /\ UNCHANGED << log, md_dir, raised, trace >>
    /\ UNCHANGED << desc, prior >>
    /\ UNCHANGED << builder_name, config, srcdocs, exception, pending, files,
                    llms_full_txt, llms_txt >>

-----------------------------------------------------------------------------
(* The secondary build: python -m sphinx -b markdown srcdir md_build_dir     *)

Running == self.md_build_process.state = "running"

\* The subprocess writes the markdown of one more document.
SecondaryWrite ==
    /\ Running
    /\ \E d \in srcdocs :
        /\ ArtifactOf(d) \notin DOMAIN md_dir.files
        /\ md_dir' = [ exists |-> TRUE,
                       files |-> (ArtifactOf(d) :> Render(d)) @@ md_dir.files ]
    /\ UNCHANGED << desc, prior >>
    /\ UNCHANGED << builder_name, config, srcdocs, self, listeners, phase,
                    exception, pending, raised, log, files, llms_full_txt,
                    llms_txt, trace >>

\* The subprocess ends: with status 0 once every document is written, with a
\* non-zero status at any point.
SecondaryExit ==
    /\ Running
    /\ \E rc \in { 0, 1 } :
        /\ rc = 0 => \A d \in srcdocs : ArtifactOf(d) \in DOMAIN md_dir.files
        /\ self' = [ self EXCEPT !.md_build_process.state = "exited",
                                 !.md_build_process.returncode = rc ]
    /\ UNCHANGED << desc, prior >>
    /\ UNCHANGED << builder_name, config, srcdocs, listeners, phase, exception,
                    pending, raised, log, files, llms_full_txt, llms_txt,
                    md_dir, trace >>

-----------------------------------------------------------------------------
(* The host: the primary build ends and build-finished is emitted           *)

\* app.build() ends, with or without an exception, and emits build-finished
\* to the connected handlers in priority order.
PrimaryBuildEnds ==
    /\ phase = "building"
    /\ \E exc \in { None, "BuildError" } : exception' = exc
    /\ pending' = listeners
    /\ phase' = "build-finished"
    /\ trace' = Append(trace, "build-finished")
    /\ UNCHANGED << desc, prior >>
    /\ UNCHANGED << builder_name, config, srcdocs, self, listeners, raised,
                    log, files, llms_full_txt, llms_txt, md_dir >>

\* Every handler of build-finished has returned.
BuildFinishedHandled ==
    /\ phase = "build-finished"
    /\ pending = << >>
    /\ phase' = "done"
    /\ UNCHANGED << desc, prior >>
    /\ UNCHANGED << builder_name, config, srcdocs, self, listeners, exception,
                    pending, raised, log, files, llms_full_txt, llms_txt,
                    md_dir, trace >>

\* build_markdown_files as a build-finished handler (priority 100).
build_markdown_files ==
    /\ phase = "build-finished"
    /\ pending # << >>
    /\ Head(pending) = "build_markdown_files"
    /\ \E launch_ok \in BOOLEAN :
        /\ self' = SelfAfterLaunch(self, launch_ok)
        /\ log' = LogAfterLaunch(log, launch_ok)
    /\ md_dir' = MkBuildDir(md_dir)
    /\ trace' = Append(trace, "Popen")
    /\ pending' = Tail(pending)
    /\ UNCHANGED << desc, prior >>
    /\ UNCHANGED << builder_name, config, srcdocs, listeners, phase, exception,
                    raised, files, llms_full_txt, llms_txt >>

-----------------------------------------------------------------------------
(* combine_builds (priority 101)                                            *)

\* list(md_build_dir.rglob("*.md")): the files in any order.
Enumerations(S) ==
    { s \in [ 1..Cardinality(S) -> S ] :
        \A i, j \in 1..Cardinality(S) : i # j => s[i] # s[j] }

\* shutil.rmtree(md_build_dir) if it exists
RmBuildDir == [ exists |-> FALSE, files |-> NoFiles ]

\* An exception of the file system while combine_builds merges or
\* aggregates.
OSError(during) == [ type |-> "OSError", during |-> during ]

\* Where the merge and aggregation of md_list can raise: nowhere, at a copy
\* after n copies succeeded, or in a writer after n of its entries.
IOOutcomes(builder, suffix_mode, md_list) ==
    LET copies == TotalCopies(builder, suffix_mode, md_list)
    IN  { [ at |-> "none", n |-> 0 ] }
        \cup { [ at |-> "copy_markdown_files", n |-> k ] : k \in 0..(copies - 1) }
        \cup { [ at |-> w, n |-> k ] :
                 w \in { "build_llms_full_txt", "create_sitemap" },
                 k \in 0..(IF md_list = << >> THEN 0 ELSE Len(md_list) - 1) }

\* A cleanup that only runs when the block did not raise.
Finally_on_success(d, failed) == IF failed THEN d ELSE RmBuildDir

\* The finally clause of combine_builds: md_build_dir is removed whether or
\* not the block raised.
Finally(d, failed) == IF d.exists THEN RmBuildDir ELSE d

\* The first n elements of s.
Prefix(s, n) == IF n >= Len(s) THEN s ELSE SubSeq(s, 1, n)

\* The try block of combine_builds and its finally clause: the three steps
\* in order, the first to raise ending the block, then the cleanup. A writer
\* that raises leaves its file with the entries written so far.
MergeAndAggregate(builder, suffix_mode, md, md_list, fs, full, sitemap, io) ==
    LET copies == TotalCopies(builder, suffix_mode, md_list)
        m == copy_markdown_files(
                 builder, suffix_mode, md.files, md_list, fs,
                 IF io.at = "copy_markdown_files" THEN io.n ELSE copies)
        gen == m.generated_markdown_files
        full_failed == ~m.failed /\ io.at = "build_llms_full_txt"
        sitemap_failed == ~m.failed /\ ~full_failed /\ io.at = "create_sitemap"
        failed == m.failed \/ full_failed \/ sitemap_failed
    IN  [ files |-> m.files,
          generated_markdown_files |-> gen,
          llms_full_txt |->
              IF m.failed THEN full
              ELSE [ exists |-> TRUE,
                     entries |->
                         IF full_failed
                         THEN Prefix(build_llms_full_txt(m.files, gen), io.n)
                         ELSE build_llms_full_txt(m.files, gen) ],
          llms_txt |->
              IF m.failed \/ full_failed THEN sitemap
              ELSE [ exists |-> TRUE,
                     entries |->
                         IF sitemap_failed
                         THEN Prefix(create_sitemap(m.files, gen), io.n)
                         ELSE create_sitemap(m.files, gen) ],
          md_dir |-> Finally(md, failed),
          steps |->
              << "copy_markdown_files" >>
              \o (IF m.failed THEN << >> ELSE << "build_llms_full_txt" >>)
              \o (IF m.failed \/ full_failed THEN << >> ELSE << "create_sitemap" >>)
              \o (IF Finally(md, failed).exists THEN << >> ELSE << "rmtree" >>),
          raised |-> IF failed THEN OSError(io.at) ELSE NoError ]

\* A handler that does not look at the exception it is given.
BuildFailed_ignored(exc) == FALSE

\* combine_builds' check of the exception build-finished is emitted with.
BuildFailed(exc) == exc # None

\* A handler that goes on without waiting for the subprocess.
WaitReturns_nowait(process) == TRUE

\* md_build_process.wait() returns once the subprocess has ended.
WaitReturns(process) == process.state = "exited"

\* A status check that lets every exit status through.
SubprocessFailed_never(process) == FALSE

\* The status combine_builds refuses to merge on.
SubprocessFailed(process) == process.returncode # 0

combine_builds ==
    /\ phase = "build-finished"
    /\ pending # << >>
    /\ Head(pending) = "combine_builds"
    /\ IF BuildFailed(exception)
       THEN /\ log' = log \cup { "Skipping build combination due to build error" }
            /\ trace' = Append(trace, "combine_builds")
            /\ pending' = Tail(pending)
            /\ UNCHANGED << self, files, llms_full_txt, llms_txt, md_dir,
                            raised, phase >>
       ELSE IF self.md_build_process.state = "None"
       THEN /\ log' = log \cup { "Markdown build process not found" }
            /\ trace' = Append(trace, "combine_builds")
            /\ pending' = Tail(pending)
            /\ UNCHANGED << self, files, llms_full_txt, llms_txt, md_dir,
                            raised, phase >>
       ELSE /\ WaitReturns(self.md_build_process)
            /\ IF SubprocessFailed(self.md_build_process)
               THEN /\ log' = log \cup { "Markdown build subprocess failed",
                                        "contents of md_build_logfile" }
                    /\ trace' = Append(trace, "combine_builds")
                    /\ pending' = Tail(pending)
                    /\ UNCHANGED << self, files, llms_full_txt, llms_txt,
                                    md_dir, raised, phase >>
               ELSE \E md_list \in Enumerations(DOMAIN md_dir.files) :
                    \E io \in IOOutcomes(builder_name, self.suffix_mode, md_list) :
                    \E r \in { MergeAndAggregate(
                                  builder_name, self.suffix_mode, md_dir,
                                  md_list, files, llms_full_txt, llms_txt, io) } :
                        /\ files' = r.files
                        /\ self' = [ self EXCEPT !.generated_markdown_files =
                                                    r.generated_markdown_files ]
                        /\ llms_full_txt' = r.llms_full_txt
                        /\ llms_txt' = r.llms_txt
                        /\ md_dir' = r.md_dir
                        /\ trace' = Append(trace, "combine_builds") \o r.steps
                        /\ raised' = r.raised
                        \* an exception leaves the handler: the host reports
                        \* an extension error and calls no further handler
                        /\ phase' = IF r.raised = NoError
                                    THEN phase ELSE "extension_error"
                        /\ pending' = IF r.raised = NoError
                                      THEN Tail(pending) ELSE << >>
                        /\ UNCHANGED log
    /\ UNCHANGED << desc, prior >>
    /\ UNCHANGED << builder_name, config, srcdocs, listeners, exception >>

-----------------------------------------------------------------------------

Next ==
    \/ build_llms_txt
    \/ SecondaryWrite
    \/ SecondaryExit
    \/ PrimaryBuildEnds
    \/ build_markdown_files
    \/ combine_builds
    \/ BuildFinishedHandled

Spec == Init /\ [][Next]_vars

-----------------------------------------------------------------------------
(* get_page_description                                                     *)

\* Largest number of lines of a page given to get_page_description.
MaxLines == 2

S_test == << "t", "e", "s", "t" >>
Ext_html == << ".", "h", "t", "m", "l" >>

Str_MainDocumentationPage ==
    << "M", "a", "i", "n", " ", "d", "o", "c", "u", "m", "e", "n", "t", "a",
       "t", "i", "o", "n", " ", "p", "a", "g", "e" >>

Str_TestingAndExamplePage ==
    << "T", "e", "s", "t", "i", "n", "g", " ", "a", "n", "d", " ", "e", "x",
       "a", "m", "p", "l", "e", " ", "p", "a", "g", "e" >>

Str_PageContent ==
    << "P", "a", "g", "e", " ", "c", "o", "n", "t", "e", "n", "t" >>

\* str.startswith(prefix)
StartsWith(s, prefix) ==
    Len(s) >= Len(prefix) /\ SubSeq(s, 1, Len(prefix)) = prefix

\* str.strip(): without the white space at either end.
RECURSIVE LStrip(_)
LStrip(s) == IF s # << >> /\ Head(s) = " " THEN LStrip(Tail(s)) ELSE s

RECURSIVE RStrip(_)
RStrip(s) ==
    IF s # << >> /\ s[Len(s)] = " " THEN RStrip(SubSeq(s, 1, Len(s) - 1)) ELSE s

Strip(s) == RStrip(LStrip(s))

\* str.replace(old, ""): every occurrence of old removed, from the left.
RECURSIVE Remove(_, _)
Remove(s, old) ==
    IF s = << >> THEN << >>
    ELSE IF StartsWith(s, old) THEN Remove(SubSeq(s, Len(old) + 1, Len(s)), old)
    ELSE << Head(s) >> \o Remove(Tail(s), old)

\* line[:100] + "..." if len(line) > 100 else line
Truncated(line) ==
    IF Len(line) > 100 THEN SubSeq(line, 1, 100) \o << ".", ".", "." >> ELSE line

\* The condition of get_page_description on a stripped line.
Meaningful(line) ==
    /\ line # << >>
    /\ ~StartsWith(line, << "#" >>)
    /\ ~StartsWith(line, << "<", "!", "-", "-" >>)
    /\ ~StartsWith(line, << "-", "-", ">" >>)
    /\ ~StartsWith(line, << ".", "." >>)
    /\ Len(line) > 10

\* The loop over content.split("\n"): the first meaningful line, truncated;
\* the empty string when there is none.
RECURSIVE FirstMeaningfulLine(_)
FirstMeaningfulLine(lines) ==
    IF lines = << >> THEN << >>
    ELSE IF Meaningful(Strip(Head(lines))) THEN Truncated(Strip(Head(lines)))
    ELSE FirstMeaningfulLine(Tail(lines))

\* base_name = md_file.stem.replace(".html", "") and the fallbacks on it.
FallbackDescription(md_file) ==
    IF Remove(Stem(Name(md_file)), Ext_html) = S_index
    THEN Str_MainDocumentationPage
    ELSE IF Remove(Stem(Name(md_file)), Ext_html) = S_test
    THEN Str_TestingAndExamplePage
    ELSE Str_PageContent

\* get_page_description(md_file), lines being the lines of the file.
get_page_description(md_file, lines) ==
    IF FirstMeaningfulLine(lines) # << >>
    THEN FirstMeaningfulLine(lines)
    ELSE FallbackDescription(md_file)

\* Lines of a page: empty, blank, a heading, comment lines, a directive,
\* and text of 10, 11, 100 and 101 characters, bare and indented.
Line_empty == << >>
Line_blank == << " ", " " >>
Line_heading ==
    << "#", " ", "G", "e", "t", "t", "i", "n", "g", " ", "s", "t", "a", "r",
       "t", "e", "d" >>
Line_comment ==
    << "<", "!", "-", "-", " ", "g", "e", "n", "e", "r", "a", "t", "e", "d",
       " ", "-", "-", ">" >>
Line_comment_end ==
    << "-", "-", ">", " ", "e", "n", "d", " ", "o", "f", " ", "c", "o", "m",
       "m", "e", "n", "t" >>
Line_directive ==
    << ".", ".", " ", "t", "o", "c", "t", "r", "e", "e", ":", ":", " ", "c",
       "o", "n", "t", "e", "n", "t", "s" >>
Line_10 == [ i \in 1..10 |-> "a" ]
Line_11 == [ i \in 1..11 |-> "b" ]
Line_11_indented == << " ", " " >> \o [ i \in 1..11 |-> "c" ] \o << " " >>
Line_100 == [ i \in 1..100 |-> "d" ]
Line_101 == [ i \in 1..101 |-> "e" ]

Lines ==
    { Line_empty, Line_blank, Line_heading, Line_comment, Line_comment_end,
      Line_directive, Line_10, Line_11, Line_11_indented, Line_100, Line_101 }

\* Files of generated_markdown_files that create_sitemap describes.
DescriptionFiles ==
    { << S_index_html_md >>, << S_index_md >>, << S_guide, S_index_html_md >>,
      << S_sub, S_index \o Ext_md >>, << S_test \o Ext_html_md >>,
      << S_guide \o Ext_html_md >>, << S_api, S_reference \o Ext_md >> }

\* A generator that describes one file of an output tree.
DescInit ==
    /\ builder_name = "html"
    /\ config = [ llms_txt_build_parallel |-> TRUE,
                  llms_txt_suffix_mode |-> "both",
                  llms_txt_full_build |-> FALSE ]
    /\ srcdocs = {}
    /\ self = [ parallel |-> FALSE,
                suffix_mode |-> None,
                md_build_process |-> NoProcess,
                generated_markdown_files |-> << >> ]
    /\ listeners = << >>
    /\ phase = "setup"
    /\ exception = None
    /\ pending = << >>
    /\ raised = NoError
    /\ log = {}
    /\ files = NoFiles
    /\ llms_full_txt = Absent
    /\ llms_txt = Absent
    /\ md_dir = [ exists |-> FALSE, files |-> NoFiles ]
    /\ trace = << >>
    /\ prior = FirstBuild
    /\ desc \in { [ md_file |-> f, lines |-> c, returned |-> FALSE,
                    description |-> << >> ] :
                  f \in DescriptionFiles,
                  c \in UNION { [ 1..n -> Lines ] : n \in 0..MaxLines } }

\* create_sitemap calls get_page_description(md_file).
DescribePage ==
    /\ ~desc.returned
    /\ desc.md_file # NoPath
    /\ desc' = [ desc EXCEPT
                   !.returned = TRUE,
                   !.description = get_page_description(desc.md_file, desc.lines) ]
    /\ UNCHANGED << builder_name, config, srcdocs, self, listeners, phase,
                    exception, pending, raised, log, files, llms_full_txt,
                    llms_txt, md_dir, trace, prior >>

DescNext == DescribePage

DescSpec == DescInit /\ [][DescNext]_vars

-----------------------------------------------------------------------------
(* Several builds into one outdir                                           *)

\* Largest number of builds run one after the other into the same outdir.
MaxBuilds == 2

\* The documents of the project that is built again and again: the root
\* document, and pages that come and go.
RebuildDocs == { D_index, D_guide, D_sub }

RebuildProjects == { S \in SUBSET RebuildDocs : D_index \in S }

\* The host is run again on the project, some documents added or removed:
\* a new process with a new MarkdownGenerator, and outdir as the run before
\* left it, _markdown_build included.
NextBuild ==
    /\ phase \in { "done", "extension_error" }
    /\ ~Running
    /\ prior.build < MaxBuilds
    /\ prior' = [ build |-> prior.build + 1, files |-> files,
                  llms_full_txt |-> llms_full_txt, llms_txt |-> llms_txt ]
    /\ \E docs \in RebuildProjects : srcdocs' = docs
    /\ self' = [ parallel |-> FALSE,
                 suffix_mode |-> None,
                 md_build_process |-> NoProcess,
                 generated_markdown_files |-> << >> ]
    /\ listeners' = << >>
    /\ phase' = "setup"
    /\ exception' = None
    /\ pending' = << >>
    /\ raised' = NoError
    /\ log' = {}
    /\ trace' = << >>
    /\ UNCHANGED << builder_name, config, files, llms_full_txt, llms_txt,
                    md_dir, desc >>

RebuildInit ==
    /\ builder_name \in { "html", "dirhtml" }
    /\ config \in [ llms_txt_build_parallel : BOOLEAN,
                    llms_txt_suffix_mode : { "file-suffix" },
                    llms_txt_full_build : { FALSE } ]
    /\ srcdocs \in RebuildProjects
    /\ self = [ parallel |-> FALSE,
                suffix_mode |-> None,
                md_build_process |-> NoProcess,
                generated_markdown_files |-> << >> ]
    /\ listeners = << >>
    /\ phase = "setup"
    /\ exception = None
    /\ pending = << >>
    /\ raised = NoError
    /\ log = {}
    /\ files = NoFiles
    /\ llms_full_txt = Absent
    /\ llms_txt = Absent
    /\ md_dir = [ exists |-> FALSE, files |-> NoFiles ]
    /\ trace = << >>
    /\ desc = NoCall
    /\ prior = FirstBuild

RebuildNext ==
    \/ build_llms_txt
    \/ SecondaryWrite
    \/ SecondaryExit
    \/ PrimaryBuildEnds
    \/ build_markdown_files
    \/ combine_builds
    \/ BuildFinishedHandled
    \/ NextBuild

RebuildSpec == RebuildInit /\ [][RebuildNext]_vars

-----------------------------------------------------------------------------
(* What the specification expects, in its own terms                         *)

\* The suffix policies the specification accepts.
AcceptedModes == { "file-suffix", "url-suffix", "auto", "both", "replace" }

\* Nested-directory mode: candidate A (path/index.html.md) and candidate B
\* (path.md) of a page, the root page being index.html.md and index.md.
PageA(path) ==
    IF path = D_index THEN << S_index_html_md >> ELSE path \o << S_index_html_md >>

PageB(path) ==
    IF path = D_index THEN << S_index_md >>
    ELSE Parent(path) \o << Name(path) \o Ext_md >>

\* Flat mode: path.html.md, and path.md under replace.
PageFlat(path) == Parent(path) \o << Name(path) \o Ext_html_md >>

PageReplace(builder, path) ==
    IF builder = "dirhtml" /\ path # D_index
    THEN path \o << S_index_md >>
    ELSE Parent(path) \o << Name(path) \o Ext_md >>

\* The page path dirhtml serves a document at: d for d/index, else the docname.
PagePath(d) == IF Len(d) > 1 /\ Name(d) = S_index THEN Parent(d) ELSE d

Range(s) == { s[i] : i \in DOMAIN s }

\* The host is through with the build: every build-finished handler has
\* returned, or builder-inited raised.
HostBuildOver == phase \in { "done", "extension_error" }

\* Something outside the extension failed: the primary build, the launch of
\* the subprocess, or the secondary build.
ExternalFailure ==
    \/ exception # None
    \/ "Failed to run sphinx-build subprocess" \in log
    \/ /\ self.md_build_process.state = "exited"
       /\ self.md_build_process.returncode # 0
    \/ raised.type = "OSError"

HtmlFamily == builder_name \in { "html", "dirhtml" }

\* combine_builds has merged and aggregated.
PipelineSucceeded ==
    /\ phase = "done"
    /\ HtmlFamily
    /\ exception = None
    /\ self.md_build_process.state = "exited"
    /\ self.md_build_process.returncode = 0

\* No per-page copy, llms.txt or llms-full.txt in outdir.
NoOutput == files = NoFiles /\ ~llms_txt.exists /\ ~llms_full_txt.exists

-----------------------------------------------------------------------------
(* Claims                                                                   *)

\* C1: for every suffix-mode value outside the accepted set, builder-inited
\* raises a configuration error that carries the offending value and the
\* phrase "Must be one of"; in that build no secondary process is ever
\* launched, no build-finished handler is registered and no output file
\* (per-page markdown, llms.txt, llms-full.txt) is written.
C1_InvalidModeAborts ==
    (phase # "setup" /\ config.llms_txt_suffix_mode \notin AcceptedModes) =>
        /\ phase = "extension_error"
        /\ raised.type = "ExtensionError"
        /\ raised.value = config.llms_txt_suffix_mode
        /\ raised.phrase = "Must be one of"
        /\ self.md_build_process.state = "None"
        /\ listeners = << >>
        /\ pending = << >>
        /\ NoOutput

C1_Witness ==
    /\ phase = "extension_error"
    /\ config.llms_txt_suffix_mode = "invalid-mode"
    /\ builder_name = "dirhtml"
    /\ srcdocs # {}

\* C2: `auto` and `both` are both accepted and behave identically: in
\* nested-directory mode, under either spelling, every page is written to
\* both path/index.html.md and path.md (the root page to index.html.md and
\* index.md) and the canonical entry is the file-suffix one.  (path is the
\* page path: d for a nested index document d/index.)
C2_AutoSameAsBoth ==
    ( /\ HostBuildOver
      /\ builder_name = "dirhtml"
      /\ config.llms_txt_suffix_mode \in { "auto", "both" }
      /\ ~ExternalFailure ) =>
        /\ raised = NoError
        /\ \A d \in srcdocs :
            /\ PageA(PagePath(d)) \in DOMAIN files
            /\ PageB(PagePath(d)) \in DOMAIN files
            /\ PageA(PagePath(d)) \in Range(self.generated_markdown_files)

\* C3: under `replace` a successful build writes for every page exactly one
\* markdown copy with .html replaced by .md (flat: path.md; nested-directory:
\* path/index.md, root: index.md), that copy is the canonical entry, and no
\* file ending in .html.md exists in the output tree.
C3_ReplaceWritesMdOnly ==
    ( /\ HostBuildOver
      /\ HtmlFamily
      /\ config.llms_txt_suffix_mode = "replace"
      /\ ~ExternalFailure ) =>
        /\ raised = NoError
        /\ DOMAIN files = { PageReplace(builder_name, PagePath(d)) : d \in srcdocs }
        /\ Range(self.generated_markdown_files) = DOMAIN files
        /\ \A p \in DOMAIN files :
             Len(Name(p)) < Len(Ext_html_md)
             \/ SubSeq(Name(p), Len(Name(p)) - Len(Ext_html_md) + 1, Len(Name(p)))
                  # Ext_html_md

\* C4 as stated: in nested-directory mode, for every SourceDocument path,
\* under file-suffix the only file written is A = path/index.html.md (root:
\* index.html.md) and it is canonical; under url-suffix the only file written
\* is B = path.md (root: index.md) and it is canonical.
C4_AsStated ==
    (PipelineSucceeded /\ builder_name = "dirhtml") =>
        /\ config.llms_txt_suffix_mode = "file-suffix" =>
            /\ DOMAIN files = { PageA(d) : d \in srcdocs }
            /\ Range(self.generated_markdown_files) = { PageA(d) : d \in srcdocs }
        /\ config.llms_txt_suffix_mode = "url-suffix" =>
            /\ DOMAIN files = { PageB(d) : d \in srcdocs }
            /\ Range(self.generated_markdown_files) = { PageB(d) : d \in srcdocs }

\* C4 amended: the same with A and B taken at the page path, which for a
\* nested index document d/index is d (A = d/index.html.md, B = d.md): under
\* file-suffix merge writes A only, under url-suffix B only, one canonical
\* entry per document.
C4_SingleSuffixTargets ==
    (PipelineSucceeded /\ builder_name = "dirhtml") =>
        /\ config.llms_txt_suffix_mode = "file-suffix" =>
            /\ DOMAIN files = { PageA(PagePath(d)) : d \in srcdocs }
            /\ Range(self.generated_markdown_files) = DOMAIN files
            /\ \A d \in srcdocs : PageB(PagePath(d)) \notin DOMAIN files
        /\ config.llms_txt_suffix_mode = "url-suffix" =>
            /\ DOMAIN files = { PageB(PagePath(d)) : d \in srcdocs }
            /\ Range(self.generated_markdown_files) = DOMAIN files
            /\ \A d \in srcdocs : PageA(PagePath(d)) \notin DOMAIN files
        /\ config.llms_txt_suffix_mode \in { "file-suffix", "url-suffix" } =>
            Len(self.generated_markdown_files) = Cardinality(srcdocs)

C4_Witness ==
    /\ PipelineSucceeded
    /\ builder_name = "dirhtml"
    /\ config.llms_txt_suffix_mode = "url-suffix"
    /\ srcdocs = { D_index, D_sub_index, D_api_reference }
    /\ << S_sub \o Ext_md >> \in DOMAIN files

\* C5: in flat mode, for every page and every suffix policy other than
\* `replace`, merge writes exactly one copy, at path.html.md, and it is the
\* canonical entry; the suffix policy has no other effect in flat mode.
C5_FlatHtmlMd ==
    ( /\ HostBuildOver
      /\ builder_name = "html"
      /\ config.llms_txt_suffix_mode \in AcceptedModes \ { "replace" }
      /\ ~ExternalFailure ) =>
        /\ raised = NoError
        /\ DOMAIN files = { PageFlat(d) : d \in srcdocs }
        /\ Range(self.generated_markdown_files) = DOMAIN files
        /\ Len(self.generated_markdown_files) = Cardinality(srcdocs)

\* C6: after a successful merge under the default (auto/both) policy in
\* nested-directory mode, for every page the two files written for it
\* (path/index.html.md and path.md) have identical content, equal to the
\* content of the generated artifact of that page.
C6_BothCopiesIdentical ==
    ( /\ PipelineSucceeded
      /\ builder_name = "dirhtml"
      /\ config.llms_txt_suffix_mode \in { "auto", "both" } ) =>
        \A d \in srcdocs :
            /\ PageA(PagePath(d)) \in DOMAIN files
            /\ PageB(PagePath(d)) \in DOMAIN files
            /\ files[PageA(PagePath(d))] = Render(d)
            /\ files[PageB(PagePath(d))] = Render(d)

\* C7: when the full-build option is false, a successful build does not
\* create llms-full.txt, while llms.txt and the per-page copies are written.
C7_NoFullTextWhenDisabled ==
    (PipelineSucceeded /\ ~config.llms_txt_full_build) =>
        /\ ~llms_full_txt.exists
        /\ llms_txt.exists
        /\ Len(llms_txt.entries) = Cardinality(srcdocs)
        /\ srcdocs # {} => files # NoFiles

\* The entry of the documentation root/home page.
IsHomeEntry(e) == e.content = Render(D_index)

\* C8: for every builder mode and every accepted suffix policy, in llms.txt
\* and in llms-full.txt the home entry comes before every other entry, all
\* other entries are in ascending lexical order of their canonical file
\* name, and the two files list the same entries in the same order.
C8_HomeFirstThenLexical ==
    (PipelineSucceeded /\ config.llms_txt_suffix_mode \in AcceptedModes) =>
        /\ llms_txt.exists /\ llms_full_txt.exists
        /\ Len(llms_txt.entries) = Len(llms_full_txt.entries)
        /\ \A i \in DOMAIN llms_txt.entries :
            /\ llms_full_txt.entries[i].heading = Name(llms_txt.entries[i].url)
            /\ llms_full_txt.entries[i].content = llms_txt.entries[i].content
            /\ IsHomeEntry(llms_txt.entries[i]) => i = 1
        /\ \A i, j \in DOMAIN llms_txt.entries :
            ( /\ i < j
              /\ ~IsHomeEntry(llms_txt.entries[i])
              /\ ~IsHomeEntry(llms_txt.entries[j]) ) =>
                ~StrLess(Name(llms_txt.entries[j].url), Name(llms_txt.entries[i].url))

\* C9: every generated artifact contributes exactly one canonical entry, one
\* of the paths merge wrote; so for N source pages, under any policy
\* including auto/both, llms-full.txt holds exactly N page sections and
\* llms.txt exactly N link lines.
C9_OneEntryPerPage ==
    ( /\ HostBuildOver
      /\ HtmlFamily
      /\ config.llms_txt_suffix_mode \in AcceptedModes
      /\ ~ExternalFailure ) =>
        /\ Len(self.generated_markdown_files) = Cardinality(srcdocs)
        /\ Range(self.generated_markdown_files) \subseteq DOMAIN files
        /\ llms_full_txt.exists
        /\ Len(llms_full_txt.entries) = Cardinality(srcdocs)
        /\ llms_txt.exists
        /\ Len(llms_txt.entries) = Cardinality(srcdocs)

\* C10: after a successful pipeline every link url of the "## Pages" section
\* of llms.txt is the path, relative to the output root, of a markdown file
\* that the merge of this build wrote to the output tree, in every builder
\* mode and in parallel and deferred mode alike.
C10_SitemapLinksExist ==
    PipelineSucceeded =>
        /\ llms_txt.exists
        /\ \A i \in DOMAIN llms_txt.entries :
            /\ llms_txt.entries[i].url \in DOMAIN files
            /\ \E d \in srcdocs : files[llms_txt.entries[i].url] = Render(d)

C10_Witness ==
    /\ PipelineSucceeded
    /\ builder_name = "dirhtml"
    /\ ~config.llms_txt_build_parallel
    /\ config.llms_txt_suffix_mode = "url-suffix"
    /\ Len(llms_txt.entries) = MaxPages

\* combine_builds has been called in this build.
CombineCalled == "combine_builds" \in Range(trace)

\* The steps of merge and aggregation.
MergeSteps == { "copy_markdown_files", "build_llms_full_txt", "create_sitemap" }

\* C11: if the secondary build exits with a non-zero status, the
\* build-finished handler waits for it to terminate, then logs the contents
\* of its log file, performs no merge and no aggregation (no llms.txt, no
\* llms-full.txt and no per-page copy is written in this run), and returns
\* without raising, the primary build's outcome unchanged.
C11_FailedSecondarySkipsMerge ==
    ( /\ CombineCalled
      /\ exception = None
      /\ self.md_build_process.state # "None" ) =>
        /\ self.md_build_process.state = "exited"
        /\ self.md_build_process.returncode # 0 =>
            /\ "Markdown build subprocess failed" \in log
            /\ "contents of md_build_logfile" \in log
            /\ Range(trace) \cap MergeSteps = {}
            /\ NoOutput
            /\ raised = NoError
            /\ phase \in { "build-finished", "done" }

C11_Witness ==
    /\ phase = "done"
    /\ exception = None
    /\ self.md_build_process.state = "exited"
    /\ self.md_build_process.returncode # 0
    /\ "contents of md_build_logfile" \in log
    /\ DOMAIN md_dir.files # {}
    /\ NoOutput

\* C12: whenever build-finished is delivered with a primary-build failure, in
\* parallel mode and in deferred mode alike, the secondary build is not
\* touched: no secondary process is launched at that point, none is waited
\* on, no merge or aggregation is performed and nothing is raised.
C12_PrimaryFailureLeavesSecondaryAlone ==
    exception # None =>
        /\ \A i, j \in DOMAIN trace :
            (trace[i] = "build-finished" /\ trace[j] = "Popen") => j < i
        /\ Range(trace) \cap MergeSteps = {}
        /\ NoOutput
        /\ raised = NoError

\* C13: an invalid suffix-mode is the only failure that makes a lifecycle
\* handler raise to the host: a failed secondary build, a failure to launch
\* the secondary process and an I/O failure during merge or aggregation are
\* logged and leave the outcome of the host build unaffected.
C13_OnlyInvalidModeRaises ==
    (raised # NoError \/ phase = "extension_error") =>
        /\ raised = InvalidSuffixModeError(config.llms_txt_suffix_mode)
        /\ trace = << >>

Launches == { i \in DOMAIN trace : trace[i] = "Popen" }

\* C15: in every build with an html/dirhtml builder the secondary process is
\* launched at most once: in parallel mode at builder-inited, before the
\* primary build proceeds; in deferred mode not before the primary build has
\* finished, and then before the combine step of the same build-finished
\* event runs.
C15_LaunchedAtMostOnce ==
    (HtmlFamily /\ phase # "setup" /\ self.suffix_mode \in valid_modes) =>
        /\ Cardinality(Launches) <= 1
        /\ self.parallel => Launches = { 1 }
        /\ ~self.parallel =>
            /\ \A j \in Launches :
                \E i \in 1..(j - 1) : trace[i] = "build-finished"
            /\ \A k \in DOMAIN trace :
                trace[k] = "combine_builds" => \E j \in Launches : j < k

C15_Witness ==
    /\ HtmlFamily
    /\ phase = "done"
    /\ ~self.parallel
    /\ exception = None
    /\ Launches # {}
    /\ "create_sitemap" \in Range(trace)

\* Step a of combine_builds was taken, and step b before it.
After(a, b) ==
    \A j \in DOMAIN trace :
        trace[j] = a => \E i \in 1..(j - 1) : trace[i] = b

\* C16: in every execution the merge starts only after the primary build has
\* finished successfully and the secondary process has terminated with exit
\* status 0; full-text aggregation starts only after the merge has written
\* all copies, and sitemap generation only after full-text aggregation; no
\* step is ever taken while the secondary process is still running.
C16_MergeThenFullTextThenSitemap ==
    /\ Range(trace) \cap MergeSteps # {} =>
        /\ exception = None
        /\ self.md_build_process.state = "exited"
        /\ self.md_build_process.returncode = 0
    /\ After("copy_markdown_files", "build-finished")
    /\ After("build_llms_full_txt", "copy_markdown_files")
    /\ After("create_sitemap", "build_llms_full_txt")
    /\ "build_llms_full_txt" \in Range(trace) =>
        /\ Len(self.generated_markdown_files) = Cardinality(srcdocs)
        /\ Range(self.generated_markdown_files) \subseteq DOMAIN files

C16_Witness ==
    /\ phase = "done"
    /\ builder_name = "dirhtml"
    /\ self.parallel
    /\ MergeSteps \subseteq Range(trace)
    /\ Cardinality(srcdocs) = MaxPages

\* C17: once the secondary build has been waited for and exited with status
\* 0, the temporary output tree _markdown_build no longer exists when the
\* build-finished handler ends, whether merge, full-text generation and
\* sitemap generation all succeeded or any one of them raised.
C17_TempTreeRemovedAfterMerge ==
    ( /\ CombineCalled
      /\ exception = None
      /\ self.md_build_process.state = "exited"
      /\ self.md_build_process.returncode = 0 ) =>
        /\ ~md_dir.exists
        /\ md_dir.files = NoFiles
        /\ "rmtree" \in Range(trace)

C17_Witness ==
    /\ CombineCalled
    /\ raised = OSError("build_llms_full_txt")
    /\ files # NoFiles
    /\ ~llms_txt.exists
    /\ ~md_dir.exists

\* C18: no temporary directory is left behind on any path: whenever the
\* handling of build-finished ends after a secondary build was started,
\* including the aborted paths (primary build failed, secondary process
\* failed to launch, secondary build exited non-zero), the temporary output
\* directory does not exist.
C18_NoTempDirLeftBehind ==
    (HostBuildOver /\ Launches # {}) => ~md_dir.exists

\* The secondary process was launched after the primary build had finished.
LaunchedDeferred ==
    \E j \in Launches : \E i \in 1..(j - 1) : trace[i] = "build-finished"

\* The primary build is reading sources and writing its doctrees.
PrimaryBuildRunning == phase = "building"

\* C19: the secondary pass is given the primary build's doctree directory if
\* and only if it is started in deferred mode; in parallel mode the
\* secondary process never uses the primary's doctree directory, so at no
\* time do the primary build and a running secondary process write to the
\* same doctree location.
C19_DoctreeDirOnlyWhenDeferred ==
    /\ self.md_build_process.state # "None" =>
        /\ self.md_build_process.doctreedir = "app.doctreedir"
               <=> LaunchedDeferred
        /\ LaunchedDeferred <=> ~self.parallel
    /\ ~ ( /\ PrimaryBuildRunning
           /\ Running
           /\ self.md_build_process.doctreedir = "app.doctreedir" )

C19_Witness ==
    /\ PrimaryBuildRunning
    /\ Running
    /\ self.parallel
    /\ self.md_build_process.doctreedir = "md_build_dir/.doctrees"
    /\ DOMAIN md_dir.files # {}

\* combine_builds' merge and aggregation of the artifacts of md_dir taken in
\* the order md_list, into the output tree fs, when nothing raises.
MergedFrom(md_list, fs, full, sitemap) ==
    MergeAndAggregate(builder_name, self.suffix_mode, md_dir, md_list, fs,
                      full, sitemap, [ at |-> "none", n |-> 0 ])

\* C20: merge followed by aggregation is deterministic and idempotent: for a
\* fixed set of generated artifacts, builder mode, suffix policy and
\* configuration, the contents of llms.txt and llms-full.txt are the same
\* whatever order the artifacts are enumerated in, and running merge and
\* aggregation twice over the same set and output root yields identical
\* files.
C20_DeterministicAndIdempotent ==
    ( /\ HtmlFamily
      /\ self.suffix_mode \in valid_modes
      /\ self.md_build_process.state = "exited"
      /\ self.md_build_process.returncode = 0
      /\ md_dir.exists ) =>
        \A l1, l2 \in Enumerations(DOMAIN md_dir.files) :
            LET once == MergedFrom(l1, files, llms_full_txt, llms_txt)
                other == MergedFrom(l2, files, llms_full_txt, llms_txt)
                twice == MergedFrom(l1, once.files, once.llms_full_txt,
                                    once.llms_txt)
            IN  /\ once.llms_txt = other.llms_txt
                /\ once.llms_full_txt = other.llms_full_txt
                /\ twice.llms_txt = once.llms_txt
                /\ twice.llms_full_txt = once.llms_full_txt

\* The home entry's file: the root page's index.html.md or index.md.
HomeFile(md_file) ==
    Len(md_file) = 1 /\ Name(md_file) \in { S_index_html_md, S_index_md }

\* A line the specification's description rule accepts: non-empty, not a
\* heading, not a comment (an HTML comment line or a ".." line), longer than
\* 10 characters.
DescribingLine(line) ==
    /\ line # << >>
    /\ ~StartsWith(line, << "#" >>)
    /\ ~StartsWith(line, << "<", "!", "-", "-" >>)
    /\ ~StartsWith(line, << "-", "-", ">" >>)
    /\ ~StartsWith(line, << ".", "." >>)
    /\ Len(line) > 10

\* C21: the sitemap description of an entry is the first line of its content
\* that is non-empty, is not a heading, is not a comment and is longer than
\* 10 characters, cut to its first 100 characters followed by "..." when
\* longer than 100; when no such line exists it is "Main documentation page"
\* for the home entry and "Page content" for every other entry, whatever its
\* file name.
C21_DescriptionOfEntry ==
    desc.returned =>
        LET good == { i \in DOMAIN desc.lines :
                        DescribingLine(Strip(desc.lines[i])) }
            first == CHOOSE i \in good : \A j \in good : i <= j
            line == Strip(desc.lines[first])
        IN  IF good # {}
            THEN desc.description =
                   IF Len(line) > 100
                   THEN SubSeq(line, 1, 100) \o << ".", ".", "." >>
                   ELSE line
            ELSE desc.description =
                   IF HomeFile(desc.md_file)
                   THEN Str_MainDocumentationPage
                   ELSE Str_PageContent

\* The files copy_markdown_files writes for document d.
TargetFilesOf(d) ==
    Range(TargetsOf(builder_name, self.suffix_mode, ArtifactOf(d)).target_files)

\* C23: the merge is collision-free: within one build two distinct generated
\* artifacts never map to the same target path of the output tree, under any
\* builder mode and accepted suffix policy, so no page's copy overwrites
\* another page's copy and no canonical path is listed twice (in particular
\* for a nested index page sub/index together with a sibling page sub).
C23_MergeCollisionFree ==
    PipelineSucceeded =>
        /\ \A d1, d2 \in srcdocs :
            d1 # d2 => TargetFilesOf(d1) \cap TargetFilesOf(d2) = {}
        /\ \A i, j \in DOMAIN self.generated_markdown_files :
            i # j => self.generated_markdown_files[i]
                        # self.generated_markdown_files[j]

\* The run aborts before the merge: the primary build failed, no secondary
\* process was started, or the secondary build exited non-zero.
AbortsBeforeMerge ==
    \/ exception # None
    \/ self.md_build_process.state = "None"
    \/ /\ self.md_build_process.state = "exited"
       /\ self.md_build_process.returncode # 0

\* C22: on every run that aborts before the merge (primary build failed, no
\* secondary process was started, or the secondary build exited non-zero) no
\* file of the output tree outside the temporary directory is created,
\* modified or deleted: per-page copies, llms.txt and llms-full.txt left by
\* a previous run keep their content.
C22_AbortedRunKeepsOutput ==
    (CombineCalled /\ AbortsBeforeMerge) =>
        /\ Range(trace) \cap MergeSteps = {}
        /\ files = prior.files
        /\ llms_txt = prior.llms_txt
        /\ llms_full_txt = prior.llms_full_txt

C22_Witness ==
    /\ prior.build > 1
    /\ prior.files # NoFiles
    /\ prior.llms_txt.exists
    /\ prior.llms_full_txt.exists
    /\ phase = "done"
    /\ exception # None
    /\ self.md_build_process.state = "exited"
    /\ self.md_build_process.returncode = 0
    /\ DOMAIN md_dir.files # {}
    /\ files = prior.files

\* The rendered pages of this build's own documents.
OwnPages == { Render(d) : d \in srcdocs }

\* C24: across any sequence of builds into the same output root, the set of
\* pages merged and aggregated by a successful build is exactly the set of
\* artifacts produced by that build's own secondary pass: a markdown file
\* left in the temporary directory by an earlier aborted build never appears
\* in a later build's per-page copies, llms.txt or llms-full.txt.
C24_OnlyOwnArtifactsMerged ==
    PipelineSucceeded =>
        /\ Len(self.generated_markdown_files) = Cardinality(srcdocs)
        /\ \A i \in DOMAIN self.generated_markdown_files :
            files[self.generated_markdown_files[i]] \in OwnPages
        /\ \A i \in DOMAIN llms_txt.entries :
            llms_txt.entries[i].content \in OwnPages
        /\ \A i \in DOMAIN llms_full_txt.entries :
            llms_full_txt.entries[i].content \in OwnPages

=============================================================================
